---------------------------- MODULE Spec2Model ----------------------------
(***************************************************************************)
(* A model of the gigago client's credential lifecycle: NewClient, the     *)
(* background tokenRefresher goroutine, refreshToken, oauthCreate, isValid *)
(* and Close (src/oauth.go, src/refresh.go), together with the request     *)
(* dispatcher that retries once after a 401.                               *)
(*                                                                         *)
(* Go's int64 is modelled exactly: a value is a tuple of four              *)
(* 16-bit limbs, least significant first, in two's complement, so that     *)
(* subtraction wraps modulo 2^64 as Go's does.                             *)
(***************************************************************************)
EXTENDS Integers, Sequences, FiniteSets, TLC

(***************************************************************************)
(* Bounds of the model.                                                    *)
(***************************************************************************)
\* how many intervals of tokenRefreshInterval the clock may advance
MaxTicks == 2
\* how many milliseconds around the freshness boundary isValid is tried on
MaxDelta == 3

(***************************************************************************)
(* int64 arithmetic.                                                       *)
(***************************************************************************)
\* one limb holds 16 bits; an int64 is four limbs
LimbBase == 65536

\* the int64 of a natural number below 2^31
ToInt64(n) == <<n % LimbBase, n \div LimbBase, 0, 0>>

MinInt64 == <<0, 0, 0, LimbBase \div 2>>
MaxInt64 == <<LimbBase - 1, LimbBase - 1, LimbBase - 1, (LimbBase \div 2) - 1>>

RECURSIVE SubFrom(_, _, _, _)
SubFrom(x, y, i, borrow) ==
    IF i > Len(x) THEN <<>>
    ELSE LET d == x[i] - y[i] - borrow
         IN  IF d < 0 THEN <<d + LimbBase>> \o SubFrom(x, y, i + 1, 1)
                      ELSE <<d>> \o SubFrom(x, y, i + 1, 0)

RECURSIVE AddFrom(_, _, _, _)
AddFrom(x, y, i, carry) ==
    IF i > Len(x) THEN <<>>
    ELSE LET s == x[i] + y[i] + carry
         IN  IF s >= LimbBase THEN <<s - LimbBase>> \o AddFrom(x, y, i + 1, 1)
                              ELSE <<s>> \o AddFrom(x, y, i + 1, 0)

\* x - y and x + y as Go computes them on int64: the carry out of the top
\* limb is dropped
WrapSub(x, y) == SubFrom(x, y, 1, 0)
WrapAdd(x, y) == AddFrom(x, y, 1, 0)

IsNegative(x) == x[Len(x)] >= LimbBase \div 2

RECURSIVE UnsignedGreater(_, _, _)
UnsignedGreater(x, y, i) ==
    IF i = 0 THEN FALSE
    ELSE IF x[i] # y[i] THEN x[i] > y[i]
    ELSE UnsignedGreater(x, y, i - 1)

\* x > y on signed values of the same width
Greater(x, y) ==
    IF IsNegative(x) # IsNegative(y) THEN IsNegative(y)
    ELSE UnsignedGreater(x, y, Len(x))

\* the same value one limb wider: differences of int64 values are exact there
SignExtend(x) == Append(x, IF IsNegative(x) THEN LimbBase - 1 ELSE 0)

(***************************************************************************)
(* refresh.go: the freshness policy.                                       *)
(***************************************************************************)
\* int64(tokenRefreshBuffer / time.Millisecond), 15 minutes
fifteenMinutesMs == 900000
\* tokenRefreshInterval in milliseconds, 1 minute
tokenRefreshIntervalMs == 60000

\* 2023-10-27T10:00:00Z in Unix milliseconds, 1698400800000
\* = 395 * 2^32 + 28819 * 2^16 + 36096
testNowMs == <<36096, 28819, 395, 0>>

\* a plausible slip: >= for >
isValidInclusive(expire_at, nowMs) ==
    LET remaining == WrapSub(expire_at, nowMs)
    IN  ~Greater(ToInt64(fifteenMinutesMs), remaining)

\* isValid(expire_at, now), with now already taken to Unix milliseconds
isValid(expire_at, nowMs) ==
    LET remaining == WrapSub(expire_at, nowMs)
    IN  Greater(remaining, ToInt64(fifteenMinutesMs))

\* expire_at - nowMs > 15 minutes over the integers, without wrapping
RemainingExceedsBuffer(expire_at, nowMs) ==
    Greater(WrapSub(SignExtend(expire_at), SignExtend(nowMs)),
            SignExtend(ToInt64(fifteenMinutesMs)))

\* the time after k ticks of the refresh interval
ClockMs(k) == WrapAdd(testNowMs, ToInt64(k * tokenRefreshIntervalMs))

(***************************************************************************)
(* oauth.go: the token endpoint and oauthCreate.                           *)
(***************************************************************************)
\* a *tokenResponse: nil, or a pointer to a value that is never changed
\* after oauthCreate has returned it
NilToken == [nil |-> TRUE, AccessToken |-> "", ExpiresAt |-> ToInt64(0)]
TokenResponse(token, expires) ==
    [nil |-> FALSE, AccessToken |-> token, ExpiresAt |-> expires]

\* the bodies the token endpoint answers with: not JSON, the empty object
\* (which the tests' token endpoint answers with), and a token that is fresh
\* up to the first tick and at the freshness boundary on the second
Garbage == [json |-> FALSE, has_token |-> FALSE, access_token |-> "",
            has_expiry |-> FALSE, expires_at |-> ToInt64(0)]
EmptyObject == [json |-> TRUE, has_token |-> FALSE, access_token |-> "",
                has_expiry |-> FALSE, expires_at |-> ToInt64(0)]
TokenBody(token, expires) ==
    [json |-> TRUE, has_token |-> TRUE, access_token |-> token,
     has_expiry |-> TRUE, expires_at |-> expires]
BodyA == TokenBody("tokA", WrapAdd(ClockMs(2), ToInt64(fifteenMinutesMs)))

\* what one request to the token endpoint can come back with
OauthResponses ==
    {[transport |-> "failed", status |-> 0, body |-> Garbage]}
    \cup {[transport |-> "ok", status |-> s, body |-> EmptyObject] : s \in {401, 500}}
    \cup {[transport |-> "ok", status |-> 200, body |-> b] :
             b \in {Garbage, EmptyObject, BodyA}}

\* json.Decode into a zero tokenResponse: a field the body lacks keeps its
\* zero value
Decode(body) ==
    TokenResponse(IF body.has_token THEN body.access_token ELSE "",
                  IF body.has_expiry THEN body.expires_at ELSE ToInt64(0))

\* what an error of oauthCreate says: the "unexpected status %d: %s" of a
\* status other than 200 carries the status and the body, the others neither
NoDetail == [status |-> 0, body |-> Garbage]
StatusDetail(resp) == [status |-> resp.status, body |-> resp.body]

\* a plausible slip: the status is not looked at
oauthCreateAnyStatus(resp) ==
    IF resp.transport # "ok"
    THEN [err |-> "transport", token |-> NilToken, detail |-> NoDetail]
    ELSE IF ~resp.body.json
    THEN [err |-> "decode", token |-> NilToken, detail |-> NoDetail]
    ELSE [err |-> "none", token |-> Decode(resp.body), detail |-> NoDetail]

\* a plausible slip: the decode error is dropped and the nil result returned
oauthCreateNilOnGarbage(resp) ==
    IF resp.transport # "ok"
    THEN [err |-> "transport", token |-> NilToken, detail |-> NoDetail]
    ELSE IF resp.status # 200
    THEN [err |-> "status", token |-> NilToken, detail |-> StatusDetail(resp)]
    ELSE IF ~resp.body.json
    THEN [err |-> "none", token |-> NilToken, detail |-> NoDetail]
    ELSE [err |-> "none", token |-> Decode(resp.body), detail |-> NoDetail]

\* oauthCreate, as a function of what the request came back with
oauthCreate(resp) ==
    IF resp.transport # "ok"
    THEN [err |-> "transport", token |-> NilToken, detail |-> NoDetail]
    ELSE IF resp.status # 200
    THEN [err |-> "status", token |-> NilToken, detail |-> StatusDetail(resp)]
    ELSE IF ~resp.body.json
    THEN [err |-> "decode", token |-> NilToken, detail |-> NoDetail]
    ELSE [err |-> "none", token |-> Decode(resp.body), detail |-> NoDetail]

(***************************************************************************)
(* The state.                                                              *)
(***************************************************************************)
VARIABLES
    nc,           \* NewClient: where the call is, and the error it returned
    accessToken,  \* Client.accessToken
    mu,           \* Client.mu: the writer holding it and the readers holding it
    wg,           \* Client.wg: the wait group's counter
    cancelled,    \* whether ctxCancel has been called (ctxWithCancel is done)
    tickerC,      \* the ticks waiting in ticker.C, a channel of capacity 1
    ticks,        \* the intervals elapsed on the clock
    bg,           \* the tokenRefresher goroutine: where it is, the token its
                  \* refresh fetched, and the error its last refresh returned
    fg,           \* the send calls in the foreground
    cl,           \* the calls of Close
    replaced,     \* history: every credential the store has been given
    latest,       \* history: the credential of the last completed replace
    iv,           \* one call of isValid: its arguments and its result
    oc            \* one call of oauthCreate: what the request came back with,
                  \* and what the call returned

vars == <<nc, accessToken, mu, wg, cancelled, tickerC, ticks, bg, fg, cl,
          replaced, latest, iv, oc>>
clientVars == <<nc, accessToken, mu, wg, cancelled, tickerC, ticks, bg, fg, cl,
                replaced, latest>>

(***************************************************************************)
(* The processes.                                                          *)
(***************************************************************************)
\* the send calls that run concurrently
NumCallers == 1
Callers == 1..NumCallers
\* the calls of Close
NumClosers == 1
Closers == 1..NumClosers

\* the name a send call holds Client.mu under
Caller(c) == <<"send", c>>
Refresher == <<"tokenRefresher", 0>>

\* the statuses the completion endpoint answers with
AIStatuses == {200, 401, 403, 500}

\* a send call: where it is, the credential its request carries, the token
\* its forced refresh fetched, the statuses of its first and second attempt,
\* how many attempts and forced refreshes it has made, whether another
\* writer replaced the credential it stored, and what it returned
NoCall == [pc |-> "idle", cred |-> NilToken, token |-> NilToken, first |-> 0,
           second |-> 0, attempts |-> 0, refreshes |-> 0, overwritten |-> FALSE,
           result |-> "none"]

\* the state before NewClient is called, for the send calls and the calls of
\* Close that will be made; ctx is the context NewClient is called with
InitWith(callers, closeCalls) ==
    /\ nc = [pc |-> "init", apiKey |-> "", err |-> "none", ctx |-> "live"]
    /\ accessToken = NilToken
    /\ mu = [writer |-> <<>>, readers |-> {}]
    /\ wg = 0
    /\ cancelled = FALSE
    /\ tickerC = 0
    /\ ticks = 0
    /\ bg = [pc |-> "none", token |-> NilToken, err |-> "none"]
    /\ fg = [c \in callers |-> NoCall]
    /\ cl = [k \in closeCalls |-> [pc |-> "idle", returnedAt |-> 0]]
    /\ replaced = {}
    /\ latest = NilToken

InitClient == InitWith(Callers, Closers)

IdleIsValid ==
    [expire_at |-> ToInt64(0), now |-> testNowMs, called |-> FALSE, ret |-> FALSE]

IdleOauthCreate ==
    [resp |-> [transport |-> "failed", status |-> 0, body |-> Garbage],
     called |-> FALSE,
     ret |-> [err |-> "none", token |-> NilToken, detail |-> NoDetail]]

Init == InitClient /\ iv = IdleIsValid /\ oc = IdleOauthCreate

(***************************************************************************)
(* sync.RWMutex.                                                           *)
(***************************************************************************)
\* a plausible slip: a reader gets in while a writer holds the lock
CanRLockAlways(m) == TRUE

CanRLock(m) == m.writer = <<>>

\* a plausible slip: a writer gets in while another holds the lock
CanLockAmongWriters(m) == m.readers = {}

CanLock(m) == m.writer = <<>> /\ m.readers = {}

RLock(p) == CanRLock(mu) /\ mu' = [mu EXCEPT !.readers = @ \cup {p}]

\* a plausible slip: defer c.mu.RUnlock(), the read lock kept past the read
RUnlockDeferred(p) == mu' = mu

RUnlock(p) == mu' = [mu EXCEPT !.readers = @ \ {p}]
Lock(p) == CanLock(mu) /\ mu' = [mu EXCEPT !.writer = p]
Unlock(p) == mu' = [mu EXCEPT !.writer = <<>>]

(***************************************************************************)
(* oauth.go: NewClient.                                                    *)
(***************************************************************************)
\* a plausible slip: the empty key is let through
apiKeyAccepted(apiKey) == FALSE

\* the check of oauth.go line 536
apiKeyEmpty(apiKey) == apiKey = ""

\* a plausible slip: the error of the first fetch is dropped
fetchErrIgnored(r) == FALSE

\* err != nil, of oauth.go line 564
fetchFailed(r) == r.err # "none"

\* the API keys NewClient is called with
ApiKeys == {"", "FakeKey"}

\* NewClient up to its call of oauthCreate
NewClient(apiKey) ==
    /\ nc.pc = "init"
    /\ nc' = IF apiKeyEmpty(apiKey)
             THEN [nc EXCEPT !.pc = "failed", !.apiKey = apiKey, !.err = "config"]
             ELSE [nc EXCEPT !.pc = "oauth", !.apiKey = apiKey, !.err = "none"]
    /\ UNCHANGED <<accessToken, mu, wg, cancelled, tickerC, ticks, bg, fg, cl,
                   replaced, latest, iv, oc>>

\* NewClient from the return of oauthCreate: the error, or the token stored,
\* the wait group raised and the goroutine started; nc.err keeps the error
\* oauthCreate returned
NewClientOauthReturn(resp) ==
    /\ nc.pc = "oauth"
    /\ LET r == oauthCreate(resp)
       IN  IF fetchFailed(r)
           THEN /\ nc' = [nc EXCEPT !.pc = "failed", !.err = r.err]
                /\ UNCHANGED <<accessToken, wg, bg, replaced, latest>>
           ELSE /\ nc' = [nc EXCEPT !.pc = "ok", !.err = r.err]
                /\ accessToken' = r.token
                /\ replaced' = {r.token}
                /\ latest' = r.token
                /\ wg' = wg + 1
                /\ bg' = [pc |-> "select", token |-> NilToken, err |-> "none"]
    /\ UNCHANGED <<mu, cancelled, tickerC, ticks, fg, cl, iv, oc>>

\* the context NewClient was called with is cancelled, or times out, after
\* NewClient has returned the client
ConstructorCtxDone ==
    /\ nc.pc = "ok"
    /\ nc.ctx = "live"
    /\ nc' = [nc EXCEPT !.ctx = "done"]
    /\ UNCHANGED <<accessToken, mu, wg, cancelled, tickerC, ticks, bg, fg, cl,
                   replaced, latest, iv, oc>>

(***************************************************************************)
(* refresh.go: refreshToken's store, shared by the goroutine and the send  *)
(* calls.                                                                  *)
(***************************************************************************)
\* a plausible slip: only the expiry of the stored value is updated
StoreExpiryOnly(old, token) == [old EXCEPT !.ExpiresAt = token.ExpiresAt]

\* a plausible slip: the fetched token is never stored
StoreNothing(old, token) == old

\* c.accessToken = token, refresh.go line 83: the store's next content
StoreToken(old, token) == token

\* a plausible slip: the error of the fetch is dropped and nil stored
refreshErrIgnored(r) == FALSE

\* err != nil, of refresh.go line 77
refreshFailed(r) == r.err # "none"

\* the send calls that wrote the store and have not read it again yet see
\* their credential replaced by another writer
MarkOverwritten(f, writer) ==
    [c \in DOMAIN f |->
        IF c # writer /\ f[c].pc = "retry"
        THEN [f[c] EXCEPT !.overwritten = TRUE] ELSE f[c]]

(***************************************************************************)
(* refresh.go: tokenRefresher.                                             *)
(***************************************************************************)
\* the ticker is running while the goroutine is
TickerRunning == bg.pc \notin {"none", "stopped", "panic"}

\* the clock advances by one interval, and the ticker, when it runs, sends
\* on ticker.C unless a tick is waiting there already
Tick ==
    /\ ticks < MaxTicks
    /\ ticks' = ticks + 1
    /\ tickerC' = IF TickerRunning THEN 1 ELSE tickerC
    /\ UNCHANGED <<nc, accessToken, mu, wg, cancelled, bg, fg, cl,
                   replaced, latest, iv, oc>>

\* a plausible slip: the goroutine returns without c.wg.Done()
RefresherExitWithoutDone ==
    /\ bg' = [pc |-> "stopped", token |-> NilToken, err |-> "none"]
    /\ wg' = wg

\* return, with the deferred ticker.Stop() and c.wg.Done()
RefresherExit ==
    /\ bg' = [pc |-> "stopped", token |-> NilToken, err |-> "none"]
    /\ wg' = wg - 1

\* a plausible slip: the goroutine is started on the context NewClient was
\* called with
loopCtxIsConstructorCtx == cancelled \/ nc.ctx = "done"

\* whether the goroutine's context is done: it is ctxWithCancel, derived from
\* context.Background(), which only ctxCancel ends
loopCtxDone == cancelled

\* the earlier tokenRefresher: no check of ctx.Err() after a tick
ctxErrUnchecked(done) == FALSE

\* ctx.Err() != nil
ctxErr(done) == done

\* case <-ticker.C, and the check of ctx.Err() that follows it
RefresherTick ==
    /\ bg.pc = "select"
    /\ tickerC = 1
    /\ tickerC' = 0
    /\ IF ctxErr(loopCtxDone)
       THEN RefresherExit
       ELSE bg' = [bg EXCEPT !.pc = "rlock"] /\ UNCHANGED wg
    /\ UNCHANGED <<nc, accessToken, mu, cancelled, ticks, fg, cl,
                   replaced, latest, iv, oc>>

\* case <-ctx.Done()
RefresherDone ==
    /\ bg.pc = "select"
    /\ loopCtxDone
    /\ RefresherExit
    /\ UNCHANGED <<nc, accessToken, mu, cancelled, tickerC, ticks, fg, cl,
                   replaced, latest, iv, oc>>

\* c.mu.RLock()
RefresherRLock ==
    /\ bg.pc = "rlock"
    /\ RLock(Refresher)
    /\ bg' = [bg EXCEPT !.pc = "read"]
    /\ UNCHANGED <<nc, accessToken, wg, cancelled, tickerC, ticks, fg, cl,
                   replaced, latest, iv, oc>>

\* shouldRefresh := !c.isValid(c.accessToken.ExpiresAt, time.Now()), then
\* c.mu.RUnlock(); a nil accessToken panics there
RefresherCheck ==
    /\ bg.pc = "read"
    /\ IF accessToken.nil
       THEN bg' = [bg EXCEPT !.pc = "panic"] /\ UNCHANGED mu
       ELSE /\ RUnlock(Refresher)
            /\ bg' = [bg EXCEPT !.pc =
                        IF ~isValid(accessToken.ExpiresAt, ClockMs(ticks))
                        THEN "refresh" ELSE "select"]
    /\ UNCHANGED <<nc, accessToken, wg, cancelled, tickerC, ticks, fg, cl,
                   replaced, latest, iv, oc>>

\* a plausible slip: the loop returns when a refresh fails
returnOnRefreshError(err) == "stopped"

\* if err != nil the error is logged, and the for loop goes round again
afterRefreshError(err) == "select"

\* refreshToken(reqCtx) up to the request: a context already cancelled fails
\* the request before it is sent, and the error is logged
RefresherRequest ==
    /\ bg.pc = "refresh"
    /\ bg' = IF loopCtxDone
             THEN [bg EXCEPT !.pc = afterRefreshError("context"), !.err = "context"]
             ELSE [bg EXCEPT !.pc = "oauth"]
    /\ UNCHANGED <<nc, accessToken, mu, wg, cancelled, tickerC, ticks, fg, cl,
                   replaced, latest, iv, oc>>

\* oauthCreate returns in refreshToken: the error is returned and logged, or
\* the token goes on to c.mu.Lock()
RefresherOauthReturn(resp) ==
    /\ bg.pc = "oauth"
    /\ LET r == oauthCreate(resp)
       IN  bg' = IF refreshFailed(r)
                 THEN [pc |-> afterRefreshError(r.err), token |-> NilToken,
                       err |-> r.err]
                 ELSE [pc |-> "lock", token |-> r.token, err |-> "none"]
    /\ UNCHANGED <<nc, accessToken, mu, wg, cancelled, tickerC, ticks, fg, cl,
                   replaced, latest, iv, oc>>

\* c.mu.Lock()
RefresherLock ==
    /\ bg.pc = "lock"
    /\ Lock(Refresher)
    /\ bg' = [bg EXCEPT !.pc = "write"]
    /\ UNCHANGED <<nc, accessToken, wg, cancelled, tickerC, ticks, fg, cl,
                   replaced, latest, iv, oc>>

\* c.accessToken = token and the deferred c.mu.Unlock()
RefresherStore ==
    /\ bg.pc = "write"
    /\ accessToken' = StoreToken(accessToken, bg.token)
    /\ replaced' = replaced \cup {bg.token}
    /\ latest' = bg.token
    /\ Unlock(Refresher)
    /\ bg' = [pc |-> "select", token |-> NilToken, err |-> "none"]
    /\ fg' = MarkOverwritten(fg, 0)
    /\ UNCHANGED <<nc, wg, cancelled, tickerC, ticks, cl, iv, oc>>

(***************************************************************************)
(* oauth.go: Close.                                                        *)
(***************************************************************************)
\* a plausible slip: Close does not wait for the goroutine
WaitSkipped(counter) == TRUE

\* c.wg.Wait() returns once the counter is zero
WaitReturns(counter) == counter = 0

\* a plausible slip: Close waits without cancelling
ctxCancelForgotten(done) == done

\* c.ctxCancel(): ctxWithCancel is done from now on
ctxCancel(done) == TRUE

\* c.ctxCancel()
CloseCancel(k) ==
    /\ nc.pc = "ok"
    /\ cl[k].pc = "idle"
    /\ cancelled' = ctxCancel(cancelled)
    /\ cl' = [cl EXCEPT ![k].pc = "wait"]
    /\ UNCHANGED <<nc, accessToken, mu, wg, tickerC, ticks, bg, fg,
                   replaced, latest, iv, oc>>

\* c.wg.Wait()
CloseWait(k) ==
    /\ cl[k].pc = "wait"
    /\ WaitReturns(wg)
    /\ cl' = [cl EXCEPT ![k].pc = "closeidle"]
    /\ UNCHANGED <<nc, accessToken, mu, wg, cancelled, tickerC, ticks, bg, fg,
                   replaced, latest, iv, oc>>

\* c.httpClient.CloseIdleConnections(), and Close returns
CloseIdleConnections(k) ==
    /\ cl[k].pc = "closeidle"
    /\ cl' = [cl EXCEPT ![k] = [pc |-> "returned", returnedAt |-> ticks]]
    /\ UNCHANGED <<nc, accessToken, mu, wg, cancelled, tickerC, ticks, bg, fg,
                   replaced, latest, iv, oc>>

(***************************************************************************)
(* The request dispatcher: one send call.                                  *)
(***************************************************************************)
\* a plausible slip: every 401 is retried
retryAlways(status, attempts) == status = 401

\* a plausible slip: every failure is retried once
retryAnyFailure(status, attempts) == status # 200 /\ attempts = 1

\* a 401 on the first attempt forces a refresh and one retry
retryAfterRefresh(status, attempts) == status = 401 /\ attempts = 1

\* the call reads the current credential: c.mu.RLock()
SendRLock(c) ==
    /\ nc.pc = "ok"
    /\ fg[c].pc \in {"idle", "retry"}
    /\ RLock(Caller(c))
    /\ fg' = [fg EXCEPT ![c].pc = "read"]
    /\ UNCHANGED <<nc, accessToken, wg, cancelled, tickerC, ticks, bg, cl,
                   replaced, latest, iv, oc>>

\* the credential is read, the lock released and the request sent with it
SendRead(c) ==
    /\ fg[c].pc = "read"
    /\ RUnlock(Caller(c))
    /\ fg' = [fg EXCEPT ![c].pc = "call", ![c].cred = accessToken,
                        ![c].attempts = @ + 1]
    /\ UNCHANGED <<nc, accessToken, wg, cancelled, tickerC, ticks, bg, cl,
                   replaced, latest, iv, oc>>

\* the completion endpoint answers
SendResponse(c, status) ==
    /\ fg[c].pc = "call"
    /\ fg' = [fg EXCEPT ![c] =
                IF retryAfterRefresh(status, fg[c].attempts)
                THEN [@ EXCEPT !.pc = "oauth", !.first = status,
                               !.refreshes = @ + 1]
                ELSE [@ EXCEPT !.pc = "done",
                               !.first = IF fg[c].attempts = 1 THEN status ELSE @,
                               !.second = IF fg[c].attempts = 1 THEN @ ELSE status,
                               !.result = IF status = 200 THEN "ok" ELSE "error"]]
    /\ UNCHANGED <<nc, accessToken, mu, wg, cancelled, tickerC, ticks, bg, cl,
                   replaced, latest, iv, oc>>

\* a plausible slip: the forced refresh runs on the goroutine's context
sendCtxIsLoopCtx(done) == done

\* whether the context of a send call is done, given that ctxWithCancel is:
\* it is the caller's context, which ctxCancel does not end
sendCtxDone(done) == FALSE

\* oauthCreate returns in the forced refreshToken: the error ends the call,
\* or the token goes on to c.mu.Lock()
SendOauthReturn(c, resp) ==
    /\ fg[c].pc = "oauth"
    /\ LET r == IF sendCtxDone(cancelled)
                THEN [err |-> "context", token |-> NilToken, detail |-> NoDetail]
                ELSE oauthCreate(resp)
       IN  fg' = [fg EXCEPT ![c] =
                    IF refreshFailed(r)
                    THEN [@ EXCEPT !.pc = "done", !.result = "error"]
                    ELSE [@ EXCEPT !.pc = "lock", !.token = r.token]]
    /\ UNCHANGED <<nc, accessToken, mu, wg, cancelled, tickerC, ticks, bg, cl,
                   replaced, latest, iv, oc>>

\* c.mu.Lock()
SendLock(c) ==
    /\ fg[c].pc = "lock"
    /\ Lock(Caller(c))
    /\ fg' = [fg EXCEPT ![c].pc = "write"]
    /\ UNCHANGED <<nc, accessToken, wg, cancelled, tickerC, ticks, bg, cl,
                   replaced, latest, iv, oc>>

\* c.accessToken = token and the deferred c.mu.Unlock(); the call goes on to
\* its retry
SendStore(c) ==
    /\ fg[c].pc = "write"
    /\ accessToken' = StoreToken(accessToken, fg[c].token)
    /\ replaced' = replaced \cup {fg[c].token}
    /\ latest' = fg[c].token
    /\ Unlock(Caller(c))
    /\ fg' = [MarkOverwritten(fg, c) EXCEPT ![c].pc = "retry"]
    /\ UNCHANGED <<nc, wg, cancelled, tickerC, ticks, bg, cl, iv, oc>>

Next ==
    \/ \E apiKey \in ApiKeys : NewClient(apiKey)
    \/ \E resp \in OauthResponses : NewClientOauthReturn(resp)
    \/ Tick
    \/ RefresherTick
    \/ RefresherDone
    \/ RefresherRLock
    \/ RefresherCheck
    \/ RefresherRequest
    \/ \E resp \in OauthResponses : RefresherOauthReturn(resp)
    \/ RefresherLock
    \/ RefresherStore
    \/ \E k \in Closers : CloseCancel(k) \/ CloseWait(k) \/ CloseIdleConnections(k)
    \/ \E c \in Callers :
          \/ SendRLock(c)
          \/ SendRead(c)
          \/ \E status \in AIStatuses : SendResponse(c, status)
          \/ \E resp \in OauthResponses : SendOauthReturn(c, resp)
          \/ SendLock(c)
          \/ SendStore(c)

Spec == Init /\ [][Next]_vars

\* what the scheduling guarantees: a goroutine that can run does run, a
\* request to the token endpoint returns (refreshTimeout, and the cancelled
\* context, bound it), a blocked Wait, Lock or RLock goes on once it can, and
\* a send call that holds c.mu releases it. Nothing makes the clock tick,
\* Close be called, or a send call start.
Fairness ==
    /\ WF_vars(RefresherTick)
    /\ WF_vars(RefresherDone)
    /\ WF_vars(RefresherRLock)
    /\ WF_vars(RefresherCheck)
    /\ WF_vars(RefresherRequest)
    /\ WF_vars(\E resp \in OauthResponses : RefresherOauthReturn(resp))
    /\ WF_vars(RefresherLock)
    /\ WF_vars(RefresherStore)
    /\ \A k \in Closers : WF_vars(CloseWait(k)) /\ WF_vars(CloseIdleConnections(k))
    /\ \A c \in Callers : WF_vars(SendRead(c)) /\ WF_vars(SendStore(c))

FairSpec == Init /\ [][Next]_vars /\ Fairness

(***************************************************************************)
(* A herd of send calls on one client, with the goroutine idle: no tick    *)
(* comes while the calls run.                                              *)
(***************************************************************************)
\* how many send calls run concurrently in the herd
NumHerd == 2
Herd == 1..NumHerd

InitHerd == InitWith(Herd, Closers) /\ iv = IdleIsValid /\ oc = IdleOauthCreate

NextHerd ==
    \/ \E apiKey \in ApiKeys : NewClient(apiKey)
    \/ \E resp \in OauthResponses : NewClientOauthReturn(resp)
    \/ \E c \in Herd :
          \/ SendRLock(c)
          \/ SendRead(c)
          \/ \E status \in AIStatuses : SendResponse(c, status)
          \/ \E resp \in OauthResponses : SendOauthReturn(c, resp)
          \/ SendLock(c)
          \/ SendStore(c)

SpecHerd == InitHerd /\ [][NextHerd]_vars

(***************************************************************************)
(* The client's lifecycle on its own: NewClient, the goroutine, the        *)
(* context NewClient was called with, and several calls of Close; no send  *)
(* call is made.                                                           *)
(***************************************************************************)
\* how many times Close is called on the client
NumCloseCalls == 2
CloseCalls == 1..NumCloseCalls

InitLifecycle ==
    InitWith(Callers, CloseCalls) /\ iv = IdleIsValid /\ oc = IdleOauthCreate

NextLifecycle ==
    \/ \E apiKey \in ApiKeys : NewClient(apiKey)
    \/ \E resp \in OauthResponses : NewClientOauthReturn(resp)
    \/ ConstructorCtxDone
    \/ Tick
    \/ RefresherTick
    \/ RefresherDone
    \/ RefresherRLock
    \/ RefresherCheck
    \/ RefresherRequest
    \/ \E resp \in OauthResponses : RefresherOauthReturn(resp)
    \/ RefresherLock
    \/ RefresherStore
    \/ \E k \in CloseCalls :
          CloseCancel(k) \/ CloseWait(k) \/ CloseIdleConnections(k)

\* as in Fairness: the goroutine runs when it can, its requests return, and
\* a call of Close goes on once its Wait can return
FairnessLifecycle ==
    /\ WF_vars(RefresherTick)
    /\ WF_vars(RefresherDone)
    /\ WF_vars(RefresherRLock)
    /\ WF_vars(RefresherCheck)
    /\ WF_vars(RefresherRequest)
    /\ WF_vars(\E resp \in OauthResponses : RefresherOauthReturn(resp))
    /\ WF_vars(RefresherLock)
    /\ WF_vars(RefresherStore)
    /\ \A k \in CloseCalls : WF_vars(CloseWait(k)) /\ WF_vars(CloseIdleConnections(k))

SpecLifecycle == InitLifecycle /\ [][NextLifecycle]_vars /\ FairnessLifecycle

(***************************************************************************)
(* isValid on its own.                                                     *)
(***************************************************************************)
\* the current times isValid is tried at
NowInputs == {ClockMs(k) : k \in 0..MaxTicks}

\* the expiries isValid is tried on, for a current time t
ExpiryInputs(t) ==
    LET boundary == WrapAdd(t, ToInt64(fifteenMinutesMs))
    IN  {WrapAdd(boundary, ToInt64(d)) : d \in 0..MaxDelta}
        \cup {WrapSub(boundary, ToInt64(d)) : d \in 0..MaxDelta}
        \cup {WrapAdd(t, ToInt64(16 * 60 * 1000)), WrapAdd(t, ToInt64(60 * 60 * 1000)),
              WrapAdd(t, ToInt64(14 * 60 * 1000)), WrapSub(t, ToInt64(60 * 60 * 1000)),
              t, ToInt64(0), WrapSub(ToInt64(0), ToInt64(1)), MaxInt64}
        \cup {WrapAdd(MinInt64, ToInt64(d)) : d \in 0..MaxDelta}

InitIsValid ==
    /\ InitClient
    /\ \E t \in NowInputs : \E e \in ExpiryInputs(t) :
          iv = [expire_at |-> e, now |-> t, called |-> FALSE, ret |-> FALSE]
    /\ oc = IdleOauthCreate

CallIsValid ==
    /\ ~iv.called
    /\ iv' = [iv EXCEPT !.called = TRUE, !.ret = isValid(iv.expire_at, iv.now)]
    /\ UNCHANGED <<clientVars, oc>>

NextIsValid == CallIsValid

SpecIsValid == InitIsValid /\ [][NextIsValid]_vars

\* C7: isValid(e, t) is true exactly when e - t exceeds 15 minutes, for
\* every signed 64-bit expiry e and every current time t
IsValidIffRemainingExceedsBuffer ==
    iv.called => (iv.ret <=> RemainingExceedsBuffer(iv.expire_at, iv.now))

(***************************************************************************)
(* oauthCreate on its own.                                                 *)
(***************************************************************************)
\* the statuses the token endpoint is tried with
OauthStatuses == {200, 201, 204, 301, 400, 401, 403, 404, 429, 500, 503}

\* JSON objects that hold one of the two fields only, and a token whose
\* expiry has passed
TokenOnly == [json |-> TRUE, has_token |-> TRUE, access_token |-> "tokA",
              has_expiry |-> FALSE, expires_at |-> ToInt64(0)]
ExpiryOnly == [json |-> TRUE, has_token |-> FALSE, access_token |-> "",
               has_expiry |-> TRUE, expires_at |-> BodyA.expires_at]
BodyExpired == TokenBody("tokB", WrapSub(testNowMs, ToInt64(tokenRefreshIntervalMs)))

\* the bodies the token endpoint is tried with
OauthBodies == {Garbage, EmptyObject, TokenOnly, ExpiryOnly, BodyA, BodyExpired}

\* what the request of oauthCreate is tried with
OauthInputs ==
    {[transport |-> "failed", status |-> 0, body |-> Garbage]}
    \cup {[transport |-> "ok", status |-> st, body |-> b] :
             st \in OauthStatuses, b \in OauthBodies}

InitOauthCreate ==
    /\ InitClient
    /\ iv = IdleIsValid
    /\ \E resp \in OauthInputs :
          oc = [IdleOauthCreate EXCEPT !.resp = resp]

CallOauthCreate ==
    /\ ~oc.called
    /\ oc' = [oc EXCEPT !.called = TRUE, !.ret = oauthCreate(oc.resp)]
    /\ UNCHANGED <<clientVars, iv>>

NextOauthCreate == CallOauthCreate

SpecOauthCreate == InitOauthCreate /\ [][NextOauthCreate]_vars

\* the body holds both a bearer token and an expiry
HasBothFields(body) == body.json /\ body.has_token /\ body.has_expiry

\* a status other than 200 yields the error that carries status and body
StatusErrorCarriesStatusAndBody ==
    oc.resp.transport = "ok" /\ oc.resp.status # 200
        => /\ oc.ret.err = "status" /\ oc.ret.token.nil
           /\ oc.ret.detail = [status |-> oc.resp.status, body |-> oc.resp.body]

\* C13 as stated: oauthCreate returns a credential only for a status of 200
\* and a body holding both the token and the expiry; another status yields
\* the error carrying status and body, and a 200 body that lacks a field or
\* cannot be decoded yields an error and no credential
CredentialOnlyWithBothFields ==
    oc.called
        => /\ oc.ret.err = "none"
                => /\ oc.resp.transport = "ok" /\ oc.resp.status = 200
                   /\ HasBothFields(oc.resp.body)
           /\ StatusErrorCarriesStatusAndBody
           /\ oc.resp.transport = "ok" /\ oc.resp.status = 200
                /\ ~HasBothFields(oc.resp.body)
                => oc.ret.err # "none" /\ oc.ret.token.nil

\* C13 as amended: oauthCreate returns a credential exactly for a status of
\* 200 and a body that decodes; a field the body lacks is left at its zero
\* value in the credential; another status yields the error carrying status
\* and body, a 200 body that cannot be decoded a decode error, and an error
\* never comes with a credential
CredentialFromAnyDecodableBody ==
    oc.called
        => /\ oc.ret.err = "none"
                <=> /\ oc.resp.transport = "ok" /\ oc.resp.status = 200
                    /\ oc.resp.body.json
           /\ oc.ret.err = "none"
                => /\ ~oc.ret.token.nil
                   /\ oc.ret.token.AccessToken =
                         IF oc.resp.body.has_token THEN oc.resp.body.access_token
                         ELSE ""
                   /\ oc.ret.token.ExpiresAt =
                         IF oc.resp.body.has_expiry THEN oc.resp.body.expires_at
                         ELSE ToInt64(0)
           /\ oc.ret.err # "none" => oc.ret.token.nil
           /\ StatusErrorCarriesStatusAndBody
           /\ oc.resp.transport = "ok" /\ oc.resp.status = 200 /\ ~oc.resp.body.json
                => oc.ret.err = "decode"
           /\ oc.resp.transport # "ok" => oc.ret.err = "transport"

EmptyObjectYieldsCredential ==
    /\ oc.called /\ oc.resp.status = 200 /\ oc.resp.body = EmptyObject
    /\ oc.ret.err = "none" /\ oc.ret.token = TokenResponse("", ToInt64(0))

(***************************************************************************)
(* The claims.                                                             *)
(***************************************************************************)
\* C1: a send call makes at most two attempts on the completion endpoint
\* and at most one forced refresh, whatever the endpoint answers; answered
\* 401 twice it fails after exactly two attempts and one forced refresh
AtMostTwoAttemptsOneRefresh ==
    \A c \in Callers :
        /\ fg[c].attempts <= 2
        /\ fg[c].refreshes <= 1
        /\ fg[c].pc = "done" /\ fg[c].first = 401 /\ fg[c].second = 401
             => fg[c].result = "error" /\ fg[c].attempts = 2 /\ fg[c].refreshes = 1

RejectedTwice ==
    \E c \in Callers :
        fg[c].pc = "done" /\ fg[c].first = 401 /\ fg[c].second = 401

\* the order of a forced refresh: the fetch has returned its token before
\* the store is written, and the store is written before the retry reads it
FetchThenStoreThenRetry(c) ==
    /\ fg[c].pc \in {"lock", "write"}
         => ~fg[c].token.nil /\ fg[c].attempts = 1 /\ fg[c].first = 401
    /\ fg[c].pc = "retry"
         => fg[c].attempts = 1 /\ (accessToken = fg[c].token \/ fg[c].overwritten)
    /\ fg[c].attempts = 2 => fg[c].refreshes = 1 /\ fg[c].token \in replaced
    /\ fg[c].pc = "done" /\ fg[c].first = 401 /\ fg[c].second = 200
         => fg[c].result = "ok"

NonAuthFailureSurfacesAtOnce ==
    [][\A c \in Callers :
          /\ fg[c].pc = "call" /\ fg[c].attempts = 1 /\ fg'[c].first \notin {0, 200, 401}
               => /\ fg'[c].pc = "done" /\ fg'[c].result = "error"
                  /\ fg'[c].attempts = 1 /\ fg'[c].refreshes = 0
                  /\ accessToken' = accessToken
          /\ fg[c].pc = "done" => fg'[c] = fg[c]]_vars

ServerErrorSurfaced ==
    \E c \in Callers :
        /\ fg[c].pc = "done" /\ fg[c].first = 500 /\ fg[c].result = "error"
        /\ fg[c].attempts = 1 /\ fg[c].refreshes = 0

\* C4: when the first fetch fails (status, body or transport) NewClient
\* returns the error and no client, and the goroutine is never started,
\* however many ticks pass
FailedFetchStartsNothing ==
    nc.err \in {"status", "decode", "transport"}
        => /\ nc.pc = "failed"
           /\ accessToken.nil
           /\ bg.pc = "none" /\ wg = 0 /\ tickerC = 0
           /\ \A c \in Callers : fg[c].pc = "idle"
           /\ \A k \in Closers : cl[k].pc = "idle"

FailedFetchAndTicks ==
    nc.pc = "failed" /\ nc.err = "status" /\ ticks = MaxTicks

\* C5: NewClient with an empty API key fails with the configuration error
\* before any request to the token endpoint, and starts nothing
EmptyKeyIsRefused ==
    nc.pc # "init" /\ nc.apiKey = ""
        => /\ nc.pc = "failed" /\ nc.err = "config"
           /\ accessToken.nil
           /\ bg.pc = "none" /\ wg = 0 /\ tickerC = 0

EmptyKeyRefused ==
    nc.pc = "failed" /\ nc.apiKey = "" /\ ticks = MaxTicks

\* C6: once NewClient has returned a client the store is never nil, and the
\* goroutine never dereferences a nil accessToken
StoreNeverNil ==
    nc.pc = "ok" => ~accessToken.nil /\ bg.pc # "panic"

StoreSurvivesFailedRefreshAndClose ==
    /\ nc.pc = "ok" /\ ticks = MaxTicks
    /\ \E c \in Callers :
          fg[c].pc = "done" /\ fg[c].refreshes = 1 /\ fg[c].attempts = 1
    /\ \E k \in Closers : cl[k].pc = "returned"

\* the credentials that come whole out of one answer of the token endpoint
WholeCredentials == {Decode(b) : b \in {EmptyObject, BodyA}}

\* C8: whatever the interleaving of replaces and reads, the store and every
\* credential read from it are whole and are the first credential or the
\* argument of a replace
ReadsAreWhole ==
    /\ replaced \subseteq WholeCredentials
    /\ nc.pc = "ok" => accessToken \in replaced
    /\ \A c \in Callers : fg[c].attempts > 0 => fg[c].cred \in replaced

ReadRacedReplace ==
    /\ Cardinality(replaced) = 2
    /\ bg.pc = "lock"
    /\ \E c \in Callers : fg[c].pc = "call" /\ fg[c].cred # bg.token

\* C9: a read of the store returns the credential of the last replace
\* completed before it, never an older one
ReadSeesLatestReplace ==
    [][/\ \A c \in Callers :
            fg[c].pc = "read" /\ fg'[c].pc = "call" => fg'[c].cred = latest
       /\ bg.pc = "read" /\ bg'.pc # "read"
            => bg'.pc = IF isValid(latest.ExpiresAt, ClockMs(ticks))
                        THEN "select" ELSE "refresh"]_vars

ReadAfterReplace ==
    /\ Cardinality(replaced) = 2
    /\ \E c \in Callers :
          fg[c].pc = "call" /\ fg[c].attempts = 2 /\ fg[c].cred = latest

\* some call of Close has returned
CloseReturned == \E k \in Closers : cl[k].pc = "returned"

\* C10: once Close has returned the goroutine has exited, and from then on
\* it does nothing, however many ticks pass
ClosedMeansStopped ==
    /\ [](CloseReturned => bg.pc = "stopped" /\ wg = 0)
    /\ [][CloseReturned => bg' = bg /\ tickerC' = tickerC]_vars

TicksAfterClose ==
    \E k \in Closers : cl[k].pc = "returned" /\ ticks > cl[k].returnedAt

\* expiry minus now is at most 15 minutes at the k-th interval of the clock
Stale(token, k) == ~RemainingExceedsBuffer(token.ExpiresAt, ClockMs(k))

\* C11: a failed background refresh (status, body, transport or context)
\* never stops the loop: it goes back to its select with the error, and from
\* then on, while nothing is cancelled and the credential is stale, the only
\* way on from a tick is through the check to a new request to the token
\* endpoint
FailedRefreshKeepsLoopRunning ==
    [][/\ bg.pc = "oauth" => bg'.pc \in {"oauth", "select", "lock"}
       /\ bg.pc = "oauth" /\ bg'.pc = "select" => bg'.err # "none"
       /\ bg.err # "none" /\ ~cancelled /\ bg' # bg
            => /\ bg.pc = "select" => bg'.pc = "rlock" /\ tickerC = 1
               /\ bg.pc = "rlock" => bg'.pc = "read"
               /\ bg.pc = "read" /\ Stale(accessToken, ticks) => bg'.pc = "refresh"
               /\ bg.pc = "refresh" => bg'.pc = "oauth"]_vars

RetriedAfterFailedRefresh ==
    bg.pc = "oauth" /\ bg.err = "decode" /\ ~cancelled /\ ticks = MaxTicks

\* the credentials oauthCreate returns without an error
FetchedCredentials ==
    {oauthCreate(r).token : r \in {x \in OauthResponses : oauthCreate(x).err = "none"}}

\* C12: a refreshToken whose fetch fails returns the error without touching
\* the store, in the goroutine and in a send call alike; the store is
\* written only by a refreshToken whose fetch succeeded, with the credential
\* it fetched
FailedRefreshLeavesStore ==
    /\ [](/\ bg.pc \in {"lock", "write"} => bg.token \in FetchedCredentials
          /\ \A c \in Callers :
                fg[c].pc \in {"lock", "write"} => fg[c].token \in FetchedCredentials)
    /\ [][/\ bg.pc \in {"refresh", "oauth"} /\ bg'.pc \notin {"refresh", "oauth", "lock"}
               => bg'.pc = "select" /\ bg'.err # "none" /\ accessToken' = accessToken
          /\ \A c \in Callers :
                fg[c].pc = "oauth" /\ fg'[c].pc \notin {"oauth", "lock"}
                    => /\ fg'[c].pc = "done" /\ fg'[c].result = "error"
                       /\ accessToken' = accessToken
          /\ accessToken' # accessToken
               => \/ nc.pc = "oauth"
                  \/ bg.pc = "write" /\ accessToken' = bg.token
                  \/ \E c \in Callers : fg[c].pc = "write" /\ accessToken' = fg[c].token
         ]_vars

BothRefreshesFailed ==
    /\ bg.pc = "select" /\ bg.err = "status"
    /\ \E c \in Callers :
          fg[c].pc = "done" /\ fg[c].refreshes = 1 /\ fg[c].attempts = 1
    /\ replaced = {accessToken}

CloseEventuallyReturns ==
    \A k \in Closers : (cl[k].pc # "idle") ~> (cl[k].pc = "returned")

CloseWaitsOnRequestInFlight ==
    \E k \in Closers : cl[k].pc = "wait" /\ bg.pc = "oauth" /\ wg = 1

\* C16: a tick received while the credential is stale leads to a request to
\* the token endpoint, unless the context is cancelled or the credential
\* replaced by a fresh one first; and a token the goroutine has fetched is
\* stored, whatever else happens
StaleStoreEventuallyRefreshed ==
    /\ (bg.pc = "select" /\ tickerC = 1 /\ ~cancelled /\ Stale(accessToken, ticks))
          ~> (bg.pc = "oauth" \/ cancelled \/ ~Stale(accessToken, ticks))
    /\ \A t \in FetchedCredentials :
          (bg.pc = "lock" /\ bg.token = t) ~> (bg.pc = "select" /\ accessToken = t)

RefresherReplacedStaleCredential ==
    /\ bg.pc = "select" /\ ~cancelled
    /\ accessToken = Decode(BodyA) /\ replaced = {Decode(EmptyObject), Decode(BodyA)}
    /\ \A c \in Callers : fg[c].pc = "idle"

\* C17 as stated: once the context is cancelled the goroutine's next step is
\* its return: it starts no freshness check and no request to the token
\* endpoint, and writes nothing to the store
CancelStopsAtOnce ==
    [][cancelled
         => /\ bg.pc = "select" /\ bg' # bg => bg'.pc = "stopped"
            /\ bg'.pc = "read" => bg.pc = "read"
            /\ bg'.pc = "oauth" => bg.pc = "oauth"
            /\ bg.pc = "write" => bg' = bg]_vars

\* C17 as amended: once the context is cancelled the goroutine starts no new
\* round: from its select its next step is its return, even on a tick, no
\* request to the token endpoint starts, and once returned it does nothing.
\* A round already past the check of ctx.Err() runs to its end: its
\* freshness check, a refreshToken that fails on the cancelled context, and
\* the store of a token already fetched
CancelStopsAtNextSelect ==
    [][cancelled
         => /\ bg.pc = "select" /\ bg' # bg => bg'.pc = "stopped"
            /\ bg'.pc = "rlock" => bg.pc = "rlock"
            /\ bg'.pc = "oauth" => bg.pc = "oauth"
            /\ bg.pc = "refresh" /\ bg' # bg => bg'.pc = "select" /\ bg'.err = "context"
            /\ bg.pc = "write" /\ bg' # bg => accessToken' = bg.token /\ bg'.pc = "select"
            /\ bg.pc = "stopped" => bg' = bg]_vars

StoreWriteAfterCancel ==
    cancelled /\ bg.pc = "write" /\ bg.token # accessToken

\* C18: a client that NewClient returned has one goroutine, started once; it
\* returns at most once and calls Done once; the wait group's counter is 1
\* while it runs, 0 once it has returned, and never negative
OneLoopOneDone ==
    /\ [](/\ wg \in {0, 1}
          /\ wg = 1 <=> bg.pc \notin {"none", "stopped"}
          /\ nc.pc = "ok" <=> bg.pc # "none")
    /\ [][/\ bg.pc = "none" /\ bg' # bg
               => nc.pc = "oauth" /\ nc'.pc = "ok" /\ bg'.pc = "select" /\ wg' = wg + 1
          /\ bg.pc # "none" => bg'.pc # "none"
          /\ bg.pc = "stopped" => bg' = bg /\ wg' = wg
          /\ wg' # wg
               => \/ wg' = wg + 1 /\ bg.pc = "none"
                  \/ wg' = wg - 1 /\ bg.pc # "stopped" /\ bg'.pc = "stopped"
          /\ bg.pc # "stopped" /\ bg'.pc = "stopped" => wg' = wg - 1]_vars

LoopStoppedAfterWork ==
    bg.pc = "stopped" /\ wg = 0 /\ ticks = MaxTicks /\ Cardinality(replaced) = 2
        /\ \A k \in Closers : cl[k].pc = "wait"

\* C19: Close cancels, then waits for the goroutine, then closes the idle
\* connections, in that order: the connections are closed only once the
\* goroutine has returned
CloseStepsInOrder ==
    /\ [](\A k \in Closers :
            /\ cl[k].pc \in {"wait", "closeidle", "returned"} => cancelled
            /\ cl[k].pc \in {"closeidle", "returned"} => bg.pc = "stopped" /\ wg = 0)
    /\ [][\A k \in Closers :
            cl'[k].pc # cl[k].pc
                => <<cl[k].pc, cl'[k].pc>> \in
                      {<<"idle", "wait">>, <<"wait", "closeidle">>,
                       <<"closeidle", "returned">>}]_vars

ConnectionsClosedAfterLoop ==
    /\ \E k \in Closers : cl[k].pc = "closeidle"
    /\ bg.pc = "stopped"
    /\ \E c \in Callers : fg[c].pc = "oauth"

\* the processes that hold c.mu for writing, and for reading
Writing ==
    (IF bg.pc = "write" THEN {Refresher} ELSE {})
        \cup {Caller(c) : c \in {x \in Callers : fg[x].pc = "write"}}
Reading ==
    (IF bg.pc = "read" THEN {Refresher} ELSE {})
        \cup {Caller(c) : c \in {x \in Callers : fg[x].pc = "read"}}

\* C20: c.mu is held by at most one writer, and never by a writer and a
\* reader together; a store is made only by the one writer that holds it
LockIsExclusive ==
    /\ Cardinality(Writing) <= 1
    /\ Writing # {} => Reading = {}
    /\ mu.readers = Reading
    /\ \A p \in Writing : mu.writer = p
    /\ Writing = {} => mu.writer = <<>>

TwoReadersTogether ==
    Cardinality(mu.readers) = 2 /\ mu.writer = <<>>

\* the processes whose request to the token endpoint is being made or is in
\* flight
Fetching ==
    (IF bg.pc \in {"refresh", "oauth"} THEN {Refresher} ELSE {})
        \cup {Caller(c) : c \in {x \in Callers : fg[x].pc = "oauth"}}

\* C21: a process whose request to the token endpoint is in flight holds
\* c.mu neither for reading nor for writing; c.mu is held only across the
\* read or the assignment of c.accessToken, so that a reader can take it
\* whenever no assignment is under way, however long a request takes
NoLockDuringFetch ==
    /\ \A p \in Fetching : p \notin mu.readers /\ mu.writer # p
    /\ nc.pc = "oauth" => mu.readers = {} /\ mu.writer = <<>>
    /\ mu.readers \subseteq Reading
    /\ mu.writer # <<>> => mu.writer \in Writing
    /\ Fetching # {} /\ Writing = {} => CanRLock(mu)

ReadDuringFetch ==
    /\ bg.pc = "oauth"
    /\ \E c \in Callers : fg[c].pc = "read" /\ Caller(c) \in mu.readers

\* the requests the send calls in S have made to the token endpoint
RECURSIVE SumRefreshes(_)
SumRefreshes(S) ==
    IF S = {} THEN 0
    ELSE LET c == CHOOSE x \in S : TRUE
         IN  fg[c].refreshes + SumRefreshes(S \ {c})

\* the calls of the herd whose first attempt was answered 401, and those
\* whose forced refresh has stored the credential it fetched
Rejected == {c \in Herd : fg[c].first = 401}
HasStored ==
    {c \in Herd : /\ fg[c].refreshes = 1 /\ ~fg[c].token.nil
                  /\ fg[c].pc \notin {"oauth", "lock", "write"}}

FreshAnswer == [transport |-> "ok", status |-> 200, body |-> BodyA]

\* C23: cancelling the goroutine's context leaves the send calls alone: a
\* call whose request is in flight can still be answered and go on, its
\* forced refresh can still fetch a token, no step of Close touches a send
\* call, the store or the lock, and Close's wait is over as soon as the
\* goroutine has returned, whatever the send calls are doing
CloseLeavesSendCallsAlone ==
    /\ [](cancelled
            => \A c \in Callers :
                  /\ fg[c].pc = "call"
                       => ENABLED (SendResponse(c, 200) /\ fg'[c].result = "ok")
                  /\ fg[c].pc = "oauth"
                       => ENABLED (SendOauthReturn(c, FreshAnswer) /\ fg'[c].pc = "lock")
                  /\ fg[c].pc = "write" => ENABLED SendStore(c))
    /\ [](\A k \in Closers : cl[k].pc = "wait" /\ bg.pc = "stopped" => ENABLED CloseWait(k))
    /\ [][cl' # cl => fg' = fg /\ accessToken' = accessToken /\ mu' = mu]_vars

RetryInFlightAfterClose ==
    /\ \E k \in Closers : cl[k].pc = "returned"
    /\ \E c \in Callers :
          fg[c].pc = "call" /\ fg[c].attempts = 2 /\ fg[c].cred = fg[c].token

\* the last credential stored is one a send call's forced refresh fetched
\* and stored
ForcedRefreshIsLatest ==
    \E c \in Callers :
        /\ fg[c].refreshes = 1 /\ ~fg[c].token.nil
        /\ fg[c].pc \notin {"oauth", "lock", "write"}
        /\ latest = fg[c].token

\* C24: the goroutine reads the store the forced refresh writes: when the
\* last credential stored is a forced refresh's and it is fresh, the
\* goroutine's check on the next tick sends it back to its select, with no
\* request to the token endpoint and the store as it was
ForcedRefreshResetsStaleness ==
    /\ [](ForcedRefreshIsLatest => accessToken = latest)
    /\ [][bg.pc = "read" /\ bg' # bg /\ ForcedRefreshIsLatest /\ ~Stale(latest, ticks)
            => bg'.pc = "select" /\ bg'.err = bg.err /\ accessToken' = accessToken]_vars

TickAfterForcedRefresh ==
    /\ bg.pc = "read" /\ bg.err = "none" /\ ticks = 1
    /\ ForcedRefreshIsLatest /\ latest = Decode(BodyA) /\ ~Stale(latest, ticks)
    /\ Decode(EmptyObject) \in replaced

\* C25: isValid never answers true for an expiry at or before the current
\* time, whatever signed 64-bit value the expiry is
NeverFreshOnceExpired ==
    iv.called /\ ~Greater(iv.expire_at, iv.now) => ~iv.ret

\* C26: the goroutine does not run on the context NewClient was called
\* with: that context ending changes nothing of the goroutine, which goes on
\* as before, its requests still sent and answered; it returns only after
\* Close has cancelled
LoopIgnoresConstructorCtx ==
    /\ [](bg.pc = "stopped"
            => cancelled /\ \E k \in CloseCalls : cl[k].pc # "idle")
    /\ [](nc.ctx = "done" /\ bg.pc = "oauth"
            => ENABLED (RefresherOauthReturn(FreshAnswer) /\ bg'.pc = "lock"))
    /\ [][nc'.ctx # nc.ctx
            => bg' = bg /\ cancelled' = cancelled /\ wg' = wg /\ tickerC' = tickerC]_vars
    /\ [][nc.ctx = "done" /\ ~cancelled /\ bg' # bg
            => /\ bg'.pc # "stopped" /\ bg'.err # "context"
               /\ bg.pc = "select" => bg'.pc = "rlock"
               /\ bg.pc = "refresh" => bg'.pc = "oauth"]_vars

RequestAfterConstructorCtxDone ==
    nc.ctx = "done" /\ ~cancelled /\ bg.pc = "oauth" /\ wg = 1

\* C27: Close may be called more than once, one call after another or
\* together: every call returns, a call made after another has returned
\* finds its Wait over, the goroutine returns once, and the counter of the
\* wait group is never negative
DoubleCloseIsSafe ==
    /\ \A k \in CloseCalls : (cl[k].pc # "idle") ~> (cl[k].pc = "returned")
    /\ [](wg \in {0, 1})
    /\ [](\A k \in CloseCalls :
            cl[k].pc = "wait" /\ (\E j \in CloseCalls : cl[j].pc = "returned")
                => ENABLED CloseWait(k))
    /\ [][/\ cancelled => cancelled'
          /\ bg.pc = "stopped" => bg' = bg /\ wg' = wg
          /\ bg.pc # "stopped" /\ bg'.pc = "stopped" => wg = 1 /\ wg' = 0]_vars

EveryCloseCallReturned ==
    /\ NumCloseCalls >= 2
    /\ \A k \in CloseCalls : cl[k].pc = "returned"
    /\ \E j, k \in CloseCalls : cl[j].returnedAt < cl[k].returnedAt
    /\ bg.pc = "stopped" /\ wg = 0

=============================================================================
